---- MODULE Spec2Model ----
(***************************************************************************)
(* Model of src/linux_tcp/openssl.cpp of AMQP-CPP: the process-wide        *)
(* openssl handle, the function-local static Function<> bindings of the    *)
(* wrapped operations, and the dispatch of every wrapped operation to      *)
(* either the statically linked symbol or the binding resolved with        *)
(* dlsym() in the configured library.                                      *)
(***************************************************************************)
EXTENDS Naturals, Integers, Sequences, FiniteSets, Bags, TLC

(***************************************************************************)
(* Bounds of the model.                                                    *)
(***************************************************************************)
\* number of wrapped-operation calls made in one run
MaxCalls == 2
\* number of threads of the multi-threaded specification
NumThreads == 2

(***************************************************************************)
(* Handles and library images.                                             *)
(***************************************************************************)
\* openssl.cpp:20  the sentinel: look in the process's own address space
RTLD_DEFAULT == "RTLD_DEFAULT"

\* the explicitly loaded library images a caller may hand to openssl(ptr)
Libs == {"boring", "legacy", "bare"}

Handles == {RTLD_DEFAULT} \cup Libs

\* the plain pass-through wrappers, in source order; each is
\*   if (handle == RTLD_DEFAULT) return ::op(args);
\*   static Function<decltype(::op)> func(handle, "op");
\*   return func(args);
PlainOps ==
    << "SSL_CTX_new", "SSL_read", "SSL_write", "SSL_set_fd", "SSL_pending",
       "SSL_CTX_free", "SSL_free", "SSL_new", "SSL_shutdown",
       "SSL_set_connect_state", "SSL_do_handshake", "SSL_get_shutdown",
       "SSL_get_error", "SSL_use_certificate_file",
       "SSL_CTX_set_default_verify_paths", "ERR_clear_error",
       "ERR_print_errors_cb" >>

ActivePlain == { PlainOps[i] : i \in 1..Len(PlainOps) }

\* the two operations that are a macro in OpenSSL and a function in BoringSSL
MacroOps == {"SSL_set_tlsext_host_name_func", "SSL_CTX_set_mode_func"}

\* every wrapped operation of namespace AMQP::OpenSSL that the model calls
Ops ==
    {"valid", "TLS_client_method", "SSL_up_ref"} \cup MacroOps \cup ActivePlain

\* the local trampoline of a macro operation
Trampoline(op) ==
    IF op = "SSL_set_tlsext_host_name_func"
    THEN "SSL_set_tlsext_host_name_impl"
    ELSE "SSL_CTX_set_mode_impl"

\* the name a macro operation looks up with an explicit handle
MacroSymbol(op) ==
    IF op = "SSL_set_tlsext_host_name_func"
    THEN "SSL_set_tlsext_host_name"
    ELSE "SSL_CTX_set_mode"

\* the function-local static Function<> objects, one per declaration
FuncSite(op) == <<op, "func">>
OldSite == <<"TLS_client_method", "old">>
Sites == { FuncSite(op) : op \in Ops } \cup {OldSite}

\* the symbol name each static Function<> is constructed with
SymbolOf(site) ==
    IF site = OldSite THEN "SSLv23_client_method"
    ELSE IF site[1] = "valid" THEN "SSL_CTX_new"
    ELSE IF site[1] \in MacroOps THEN MacroSymbol(site[1])
    ELSE site[1]

Symbols == { SymbolOf(s) : s \in Sites }

\* the symbols the translation unit references as ::name, which the process
\* therefore links
StaticSymbols == {"TLS_client_method"} \cup ActivePlain

\* what each library image exports: "boring" every name the wrappers look
\* up (the macro operations are functions there), "legacy" an old OpenSSL
\* (no TLS_client_method, no SSL_up_ref, the macro operations are macros),
\* "bare" none of them
Exports(h) ==
    CASE h = "boring" -> Symbols
      [] h = "legacy" -> (Symbols \ {"TLS_client_method", "SSL_up_ref",
                                     "SSL_set_tlsext_host_name",
                                     "SSL_CTX_set_mode"})
      [] OTHER -> {}

\* the arguments a caller hands to a wrapped operation
Args == {"a", "b"}

(***************************************************************************)
(* Function<T> (function.h): a typed wrapper around a dlsym()'d pointer.   *)
(***************************************************************************)
NullPtr == [lib |-> "null", sym |-> "null"]

Ptr(h, name) == [lib |-> h, sym |-> name]

\* dlsym(h, name): the addresses the lookup can return.  In an explicit
\* library the answer is fixed by what the image exports; in the process
\* itself a symbol the translation unit does not link may or may not exist.
Dlsym(h, name) ==
    IF h = RTLD_DEFAULT
    THEN IF name \in StaticSymbols THEN {Ptr(h, name)}
         ELSE {Ptr(h, name), NullPtr}
    ELSE IF name \in Exports(h) THEN {Ptr(h, name)} ELSE {NullPtr}

\* a static Function<> before control first passes its declaration
Unbound == [init |-> FALSE, handle |-> RTLD_DEFAULT, ptr |-> NullPtr]

\* Function(void *handle, const char *name): store what dlsym() returned
Function(h, p) == [init |-> TRUE, handle |-> h, ptr |-> p]

\* Function::operator bool
FunctionValid(f) == f.ptr # NullPtr

\* what a library function returns for an argument; wrappers forward it
Result(p, arg) == [lib |-> p.lib, sym |-> p.sym, arg |-> arg]

\* fixed values a wrapper itself returns
Const(v) == [lib |-> "const", sym |-> v, arg |-> "none"]

\* the value left behind by a call through a null function pointer that
\* happened not to end the process
Garbage == [lib |-> "garbage", sym |-> "garbage", arg |-> "none"]

\* the pointer recorded for a call that invoked no function
NoCall == [lib |-> "none", sym |-> "none"]

(***************************************************************************)
(* State.                                                                  *)
(***************************************************************************)
VARIABLES
    handle,        \* static void *handle
    binding,       \* the static Function<> objects, by declaration
    dlsymCount,    \* bag of <<declaration, handle>>: the dlsym() calls made
    last,          \* the wrapped-operation call that just returned
    crashed,       \* a call through a null pointer ended the process
    ncalls,        \* wrapped-operation calls made so far
    configured,    \* how openssl(ptr) was called: "never", "first" (once,
                   \* before every wrapped operation) or "changed"
    pc,            \* where each thread is inside a wrapper
    tOp,           \* the wrapper each thread is inside
    seen,          \* the binding each thread found behind the declaration,
                   \* and whether it had to wait for its construction
    constructing   \* declarations whose constructor is running

mtvars == << pc, tOp, seen, constructing >>

vars ==
    << handle, binding, dlsymCount, last, crashed, ncalls, configured,
       pc, tOp, seen, constructing >>

Threads == 1..NumThreads

\* a thread that has not passed a declaration in its current call
NotSeen == [f |-> Unbound, waited |-> FALSE]

\* no wrapped operation has been called since the handle was last set
NoLast ==
    [op |-> "none", arg |-> "none", path |-> "none", via |-> {}, looked |-> <<>>,
     invoked |-> NoCall, nullCall |-> FALSE, ret |-> Const("none")]

Init ==
    /\ handle = RTLD_DEFAULT
    /\ binding = [s \in Sites |-> Unbound]
    /\ dlsymCount = EmptyBag
    /\ last = NoLast
    /\ crashed = FALSE
    /\ ncalls = 0
    /\ configured = "never"
    /\ pc = [t \in Threads |-> "idle"]
    /\ tOp = [t \in Threads |-> "none"]
    /\ seen = [t \in Threads |-> NotSeen]
    /\ constructing = [s \in Sites |-> FALSE]

\* openssl(ptr) as it would be if the bindings were tied to the handle:
\* setting the handle forgets them
opensslRebind(ptr) ==
    /\ ~crashed
    /\ handle' = ptr
    /\ configured' = IF configured = "never" /\ ncalls = 0
                      THEN "first" ELSE "changed"
    /\ last' = NoLast
    /\ binding' = [s \in Sites |-> Unbound]
    /\ UNCHANGED << dlsymCount, crashed, ncalls >>
    /\ UNCHANGED mtvars

(***************************************************************************)
(* void openssl(void *ptr)                                                 *)
(***************************************************************************)
openssl(ptr) ==
    /\ ~crashed
    /\ handle' = ptr
    /\ configured' = IF configured = "never" /\ ncalls = 0
                      THEN "first" ELSE "changed"
    /\ last' = NoLast
    /\ UNCHANGED << binding, dlsymCount, crashed, ncalls >>
    /\ UNCHANGED mtvars

(***************************************************************************)
(* The pieces every wrapper is built from.                                 *)
(***************************************************************************)
\* the bindings and the lookups made, as a wrapper's body threads them
Resolver == [b |-> binding, c |-> dlsymCount, looked |-> <<>>]

\* the constructor of a static Function<> runs: one dlsym(), its result kept
Construct(R, site, h, p) ==
    [b |-> [R.b EXCEPT ![site] = Function(h, p)],
     c |-> R.c (+) SetToBag({<<site, h>>}),
     looked |-> Append(R.looked, SymbolOf(site))]

\* the declaration without "static": constructed on every call
StaticLocalRerun(R, site, h, p) == Construct(R, site, h, p)

\* static Function<...> func(handle, "name"): the constructor runs, with the
\* handle of that moment, the first time control passes the declaration, and
\* never again; p is what its dlsym() returns
StaticLocal(R, site, h, p) ==
    IF R.b[site].init THEN R ELSE Construct(R, site, h, p)

\* a wrapper returns: the bindings it left and what it did
Return(op, arg, path, via, R, invoked, null, ret) ==
    /\ binding' = R.b
    /\ dlsymCount' = R.c
    /\ last' = [op |-> op, arg |-> arg, path |-> path, via |-> via,
                looked |-> R.looked, invoked |-> invoked, nullCall |-> null,
                ret |-> ret]
    /\ ncalls' = ncalls + 1
    /\ UNCHANGED << handle, configured >>
    /\ UNCHANGED mtvars

\* return ::name(args): the statically linked symbol
CallStatic(op, arg, name) ==
    /\ Return(op, arg, "static", {}, Resolver, Ptr(RTLD_DEFAULT, name), FALSE,
              Result(Ptr(RTLD_DEFAULT, name), arg))
    /\ crashed' = FALSE

\* return func(args): Function::operator() calls the stored pointer; with a
\* null pointer the behaviour is undefined: the process dies, or goes on
\* with a meaningless result
CallBinding(op, arg, via, R, site) ==
    IF FunctionValid(R.b[site])
    THEN /\ Return(op, arg, "resolver", via, R, R.b[site].ptr, FALSE,
                   Result(R.b[site].ptr, arg))
         /\ crashed' = FALSE
    ELSE /\ Return(op, arg, "resolver", via, R, NullPtr, TRUE, Garbage)
         /\ crashed' \in BOOLEAN

\* a wrapper may be entered
CanCall == ~crashed /\ ncalls < MaxCalls

(***************************************************************************)
(* namespace AMQP::OpenSSL                                                 *)
(***************************************************************************)
\* bool valid()
valid ==
    /\ CanCall
    /\ IF handle = RTLD_DEFAULT
       THEN /\ Return("valid", "none", "const", {}, Resolver, NoCall, FALSE,
                      Const("true"))
            /\ crashed' = FALSE
       ELSE \E p \in Dlsym(handle, "SSL_CTX_new") :
              LET R == StaticLocal(Resolver, FuncSite("valid"), handle, p)
              IN  /\ Return("valid", "none", "resolver", {FuncSite("valid")}, R,
                            NoCall, FALSE,
                            IF FunctionValid(R.b[FuncSite("valid")])
                            THEN Const("true") ELSE Const("false"))
                  /\ crashed' = FALSE

\* TLS_client_method() without the test of func: no fallback
TLS_client_method_NoFallback ==
    /\ CanCall
    /\ \E arg \in Args :
       IF handle = RTLD_DEFAULT
       THEN CallStatic("TLS_client_method", arg, "TLS_client_method")
       ELSE \E p \in Dlsym(handle, "TLS_client_method") :
              LET func == FuncSite("TLS_client_method")
              IN  CallBinding("TLS_client_method", arg, {func},
                              StaticLocal(Resolver, func, handle, p), func)

\* TLS_client_method() with both statics declared before the test of func
TLS_client_method_Eager ==
    /\ CanCall
    /\ \E arg \in Args :
       IF handle = RTLD_DEFAULT
       THEN CallStatic("TLS_client_method", arg, "TLS_client_method")
       ELSE \E p \in Dlsym(handle, "TLS_client_method"),
               q \in Dlsym(handle, "SSLv23_client_method") :
              LET func == FuncSite("TLS_client_method")
                  R1 == StaticLocal(Resolver, func, handle, p)
                  R2 == StaticLocal(R1, OldSite, handle, q)
              IN  IF FunctionValid(R2.b[func])
                  THEN CallBinding("TLS_client_method", arg, {func}, R2, func)
                  ELSE CallBinding("TLS_client_method", arg, {func, OldSite},
                                   R2, OldSite)

\* const SSL_METHOD *TLS_client_method()
TLS_client_method ==
    /\ CanCall
    /\ \E arg \in Args :
       IF handle = RTLD_DEFAULT
       THEN CallStatic("TLS_client_method", arg, "TLS_client_method")
       ELSE \E p \in Dlsym(handle, "TLS_client_method"),
               q \in Dlsym(handle, "SSLv23_client_method") :
              LET func == FuncSite("TLS_client_method")
                  R1 == StaticLocal(Resolver, func, handle, p)
                  R2 == StaticLocal(R1, OldSite, handle, q)
              IN  IF FunctionValid(R1.b[func])
                  THEN CallBinding("TLS_client_method", arg, {func}, R1, func)
                  ELSE CallBinding("TLS_client_method", arg, {func, OldSite},
                                   R2, OldSite)

\* a pass-through wrapper with the static declared before the handle test
PassThroughDeclFirst(op) ==
    /\ CanCall
    /\ op \in ActivePlain
    /\ \E arg \in Args, p \in Dlsym(handle, op) :
       LET R == StaticLocal(Resolver, FuncSite(op), handle, p)
       IN  IF handle = RTLD_DEFAULT
           THEN /\ Return(op, arg, "static", {}, R, Ptr(RTLD_DEFAULT, op),
                          FALSE, Result(Ptr(RTLD_DEFAULT, op), arg))
                /\ crashed' = FALSE
           ELSE CallBinding(op, arg, {FuncSite(op)}, R, FuncSite(op))

\* a pass-through wrapper that keeps to its binding once it has one
PassThroughSticky(op) ==
    /\ CanCall
    /\ op \in ActivePlain
    /\ \E arg \in Args :
       IF handle = RTLD_DEFAULT /\ ~binding[FuncSite(op)].init
       THEN CallStatic(op, arg, op)
       ELSE \E p \in Dlsym(handle, op) :
              CallBinding(op, arg, {FuncSite(op)},
                          StaticLocal(Resolver, FuncSite(op), handle, p),
                          FuncSite(op))

\* the plain pass-through wrappers: SSL_CTX_new, SSL_read, SSL_write, ...
PassThrough(op) ==
    /\ CanCall
    /\ op \in ActivePlain
    /\ \E arg \in Args :
       IF handle = RTLD_DEFAULT
       THEN CallStatic(op, arg, op)
       ELSE \E p \in Dlsym(handle, op) :
              CallBinding(op, arg, {FuncSite(op)},
                          StaticLocal(Resolver, FuncSite(op), handle, p),
                          FuncSite(op))

\* SSL_up_ref resolving in the process whatever handle is configured
SSL_up_ref_InProcess ==
    /\ CanCall
    /\ \E arg \in Args, p \in Dlsym(RTLD_DEFAULT, "SSL_up_ref") :
       LET func == FuncSite("SSL_up_ref")
           R == StaticLocal(Resolver, func, RTLD_DEFAULT, p)
       IN  IF FunctionValid(R.b[func])
           THEN CallBinding("SSL_up_ref", arg, {func}, R, func)
           ELSE /\ Return("SSL_up_ref", arg, "resolver", {func}, R, NoCall,
                          FALSE, Const("0"))
                /\ crashed' = FALSE

\* int SSL_up_ref(SSL *ssl)
SSL_up_ref ==
    /\ CanCall
    /\ \E arg \in Args, p \in Dlsym(handle, "SSL_up_ref") :
       LET func == FuncSite("SSL_up_ref")
           R == StaticLocal(Resolver, func, handle, p)
       IN  IF FunctionValid(R.b[func])
           THEN CallBinding("SSL_up_ref", arg, {func}, R, func)
           ELSE /\ Return("SSL_up_ref", arg, "resolver", {func}, R, NoCall,
                          FALSE, Const("0"))
                /\ crashed' = FALSE

\* a macro wrapper that calls its trampoline under every handle
MacroWrapperTrampolineOnly(op) ==
    /\ CanCall
    /\ op \in MacroOps
    /\ \E arg \in Args :
       /\ Return(op, arg, "trampoline", {}, Resolver,
                 Ptr(RTLD_DEFAULT, Trampoline(op)), FALSE,
                 Result(Ptr(RTLD_DEFAULT, Trampoline(op)), arg))
       /\ crashed' = FALSE

\* int SSL_set_tlsext_host_name_func(SSL *, const char *) and
\* uint32_t SSL_CTX_set_mode_func(SSL_CTX *, uint32_t)
MacroWrapper(op) ==
    /\ CanCall
    /\ op \in MacroOps
    /\ \E arg \in Args :
       IF handle = RTLD_DEFAULT
       THEN /\ Return(op, arg, "trampoline", {}, Resolver,
                      Ptr(RTLD_DEFAULT, Trampoline(op)), FALSE,
                      Result(Ptr(RTLD_DEFAULT, Trampoline(op)), arg))
            /\ crashed' = FALSE
       ELSE \E p \in Dlsym(handle, MacroSymbol(op)) :
              CallBinding(op, arg, {FuncSite(op)},
                          StaticLocal(Resolver, FuncSite(op), handle, p),
                          FuncSite(op))

Next ==
    \/ \E ptr \in Handles : openssl(ptr)
    \/ valid
    \/ TLS_client_method
    \/ \E op \in ActivePlain : PassThrough(op)
    \/ SSL_up_ref
    \/ \E op \in MacroOps : MacroWrapper(op)

Spec == Init /\ [][Next]_vars

(***************************************************************************)
(* Several threads inside the wrappers.  A function-local static is        *)
(* initialized under the guard the compiler emits for it: the first thread *)
(* to reach the declaration runs the constructor, a thread that reaches it *)
(* meanwhile waits, and every later thread passes.                         *)
(***************************************************************************)
\* the wrappers the threads call: one that tests its binding, one that calls
\* it, and one that does both and has no Default branch
ThreadOps == {"valid", "SSL_CTX_new", "SSL_up_ref"}

\* the main thread sets the handle before any thread enters a wrapper
Configure(ptr) ==
    /\ ncalls = 0
    /\ \A t \in Threads : pc[t] = "idle"
    /\ openssl(ptr)

\* thread t enters wrapper op and tests the handle
ThreadEnter(t, op) ==
    /\ CanCall
    /\ pc[t] = "idle"
    /\ op \in ThreadOps
    /\ ncalls' = ncalls + 1
    /\ tOp' = [tOp EXCEPT ![t] = op]
    /\ seen' = [seen EXCEPT ![t] = NotSeen]
    /\ pc' = [pc EXCEPT ![t] =
                IF handle = RTLD_DEFAULT /\ op # "SSL_up_ref"
                THEN "idle" ELSE "decl"]
    /\ UNCHANGED << handle, binding, dlsymCount, last, crashed, configured,
                    constructing >>

\* thread t wakes up: the constructor it waited for has finished
ThreadWake(t) ==
    /\ ~crashed
    /\ pc[t] = "wait"
    /\ binding[FuncSite(tOp[t])].init
    /\ pc' = [pc EXCEPT ![t] = "use"]
    /\ UNCHANGED << handle, binding, dlsymCount, last, crashed, ncalls,
                    configured, tOp, seen, constructing >>

\* the same declaration compiled without the guard: whoever finds the
\* object not yet constructed constructs it
ThreadDeclUnguarded(t) ==
    /\ ~crashed
    /\ pc[t] = "decl"
    /\ LET s == FuncSite(tOp[t])
       IN  IF binding[s].init
           THEN /\ pc' = [pc EXCEPT ![t] = "use"]
                /\ UNCHANGED << constructing, seen >>
           ELSE /\ pc' = [pc EXCEPT ![t] = "ctor"]
                /\ constructing' = [constructing EXCEPT ![s] = TRUE]
                /\ UNCHANGED seen
    /\ UNCHANGED << handle, binding, dlsymCount, last, crashed, ncalls,
                    configured, tOp >>

\* thread t reaches static Function<...> func(handle, "name")
ThreadDecl(t) ==
    /\ ~crashed
    /\ pc[t] = "decl"
    /\ LET s == FuncSite(tOp[t])
       IN  IF binding[s].init
           THEN /\ pc' = [pc EXCEPT ![t] = "use"]
                /\ UNCHANGED << constructing, seen >>
           ELSE IF constructing[s]
                THEN /\ pc' = [pc EXCEPT ![t] = "wait"]
                     /\ seen' = [seen EXCEPT ![t].waited = TRUE]
                     /\ UNCHANGED constructing
                ELSE /\ pc' = [pc EXCEPT ![t] = "ctor"]
                     /\ constructing' = [constructing EXCEPT ![s] = TRUE]
                     /\ UNCHANGED seen
    /\ UNCHANGED << handle, binding, dlsymCount, last, crashed, ncalls,
                    configured, tOp >>

\* thread t runs the constructor: Function(handle, "name") calls dlsym()
ThreadCtor(t) ==
    /\ ~crashed
    /\ pc[t] = "ctor"
    /\ LET s == FuncSite(tOp[t])
       IN  \E p \in Dlsym(handle, SymbolOf(s)) :
              LET R == Construct(Resolver, s, handle, p)
              IN  /\ binding' = R.b
                  /\ dlsymCount' = R.c
                  /\ constructing' = [constructing EXCEPT ![s] = FALSE]
    /\ pc' = [pc EXCEPT ![t] = "use"]
    /\ UNCHANGED << handle, last, crashed, ncalls, configured, tOp, seen >>

\* thread t tests or calls func and returns
ThreadUse(t) ==
    /\ ~crashed
    /\ pc[t] = "use"
    /\ LET f == binding[FuncSite(tOp[t])]
       IN  /\ seen' = [seen EXCEPT ![t].f = f]
           /\ IF tOp[t] = "SSL_CTX_new" /\ ~FunctionValid(f)
              THEN crashed' \in BOOLEAN
              ELSE crashed' = FALSE
    /\ pc' = [pc EXCEPT ![t] = "idle"]
    /\ UNCHANGED << handle, binding, dlsymCount, last, ncalls, configured,
                    tOp, constructing >>

NextThreads ==
    \/ \E ptr \in Handles : Configure(ptr)
    \/ \E t \in Threads, op \in ThreadOps : ThreadEnter(t, op)
    \/ \E t \in Threads : ThreadDecl(t)
    \/ \E t \in Threads : ThreadCtor(t)
    \/ \E t \in Threads : ThreadWake(t)
    \/ \E t \in Threads : ThreadUse(t)

SpecThreads == Init /\ [][NextThreads]_vars

(***************************************************************************)
(* Counting the dlsym() calls.                                             *)
(***************************************************************************)
\* the number of dlsym() calls among the <<declaration, handle>> pairs E
RECURSIVE Lookups(_, _)
Lookups(count, E) ==
    IF E = {} THEN 0
    ELSE LET e == CHOOSE x \in E : TRUE
         IN  count[e] + Lookups(count, E \ {e})

\* the dlsym() calls one declaration has made
SiteLookups(site) ==
    Lookups(dlsymCount, { e \in DOMAIN dlsymCount : e[1] = site })

\* the dlsym() calls made for one name in one library, by any declaration
LookupCount(h, name) ==
    Lookups(dlsymCount,
            { e \in DOMAIN dlsymCount : e[2] = h /\ SymbolOf(e[1]) = name })

\* a wrapped operation has just returned
Called == last.op # "none"

\* the call that just returned did not go near the resolver
Direct ==
    /\ last.path \in {"static", "trampoline", "const"}
    /\ last.via = {}
    /\ last.looked = <<>>

(***************************************************************************)
(* C1                                                                      *)
(***************************************************************************)
\* C1 as stated: with the Default handle every wrapped operation, SSL_up_ref
\* included, calls the linked symbol directly and neither creates nor
\* consults a binding and makes no lookup.
C1_DefaultIsDirect == (Called /\ handle = RTLD_DEFAULT) => Direct

\* C1 amended: with the Default handle every wrapped operation except
\* SSL_up_ref makes no lookup and consults no binding: valid() returns true,
\* the macro operations call their trampoline and the others the linked
\* symbol of their own name, whose result they return.  SSL_up_ref has no
\* Default branch: it goes through its binding under every handle.
C1_DefaultIsDirectExceptUpRef ==
    /\ (Called /\ handle = RTLD_DEFAULT /\ last.op # "SSL_up_ref") =>
          /\ Direct
          /\ binding[FuncSite(last.op)].init =>
                binding[FuncSite(last.op)].handle # RTLD_DEFAULT
          /\ last.op = "valid" =>
                last.path = "const" /\ last.ret = Const("true")
          /\ last.op \in MacroOps =>
                /\ last.path = "trampoline"
                /\ last.invoked = Ptr(RTLD_DEFAULT, Trampoline(last.op))
          /\ last.op \notin MacroOps \cup {"valid"} =>
                /\ last.path = "static"
                /\ last.invoked = Ptr(RTLD_DEFAULT, last.op)
                /\ last.ret = Result(last.invoked, last.arg)
    /\ (Called /\ last.op = "SSL_up_ref") =>
          /\ last.path = "resolver"
          /\ last.via = {FuncSite("SSL_up_ref")}
          /\ binding[FuncSite("SSL_up_ref")].init

\* a Default-handle call of SSL_read that ignored the valid binding an
\* earlier explicit-handle call had left
C1_Witness ==
    /\ last.op = "SSL_read"
    /\ handle = RTLD_DEFAULT
    /\ last.path = "static"
    /\ FunctionValid(binding[FuncSite("SSL_read")])

LacksModernHasLegacy(h) ==
    /\ h # RTLD_DEFAULT
    /\ "TLS_client_method" \notin Exports(h)
    /\ "SSLv23_client_method" \in Exports(h)

\* C3 as stated: whenever the configured handle lacks "TLS_client_method"
\* and exports "SSLv23_client_method", TLS_client_method() calls the legacy
\* function of that library and returns its result.
C3_LegacyFallback ==
    (last.op = "TLS_client_method" /\ LacksModernHasLegacy(handle)) =>
       /\ ~last.nullCall
       /\ last.invoked = Ptr(handle, "SSLv23_client_method")
       /\ last.ret = Result(last.invoked, last.arg)

\* C3 amended: the same, for a call whose modern binding was resolved
\* against the configured handle (no explicit-handle call of
\* TLS_client_method() was made under another handle before).
C3_LegacyFallbackOfBoundHandle ==
    ( /\ last.op = "TLS_client_method"
      /\ LacksModernHasLegacy(handle)
      /\ binding[FuncSite("TLS_client_method")].handle = handle ) =>
       /\ ~last.nullCall
       /\ last.via = {FuncSite("TLS_client_method"), OldSite}
       /\ ~FunctionValid(binding[FuncSite("TLS_client_method")])
       /\ binding[OldSite].handle = handle
       /\ last.invoked = Ptr(handle, "SSLv23_client_method")
       /\ last.invoked = binding[OldSite].ptr
       /\ last.ret = Result(last.invoked, last.arg)

\* the second call under a legacy-only library: the legacy binding again
C3_Witness ==
    /\ ncalls = 2
    /\ last.op = "TLS_client_method"
    /\ handle = "legacy"
    /\ last.looked = <<>>
    /\ last.invoked = Ptr("legacy", "SSLv23_client_method")

(***************************************************************************)
(* C4                                                                      *)
(***************************************************************************)
\* C4: an operation whose symbol could not be resolved never calls the
\* invalid binding: SSL_up_ref returns 0 for every argument, and
\* TLS_client_method() with both of its bindings invalid calls neither.
C4_NoInvalidCall ==
    /\ ( /\ last.op = "SSL_up_ref"
         /\ ~FunctionValid(binding[FuncSite("SSL_up_ref")]) ) =>
          /\ ~last.nullCall
          /\ last.invoked = NoCall
          /\ last.ret = Const("0")
    /\ ( /\ last.op = "TLS_client_method"
         /\ last.path = "resolver"
         /\ ~FunctionValid(binding[FuncSite("TLS_client_method")])
         /\ ~FunctionValid(binding[OldSite]) ) =>
          ~last.nullCall

(***************************************************************************)
(* C5                                                                      *)
(***************************************************************************)
\* the call l went by what the binding f of declaration s holds
UsesBinding(l, s, f) ==
    IF l.op = "valid"
    THEN l.ret = Const(IF FunctionValid(f) THEN "true" ELSE "false")
    ELSE IF FunctionValid(f)
         THEN l.invoked = f.ptr /\ l.ret = Result(f.ptr, l.arg)
         ELSE CASE s = FuncSite("TLS_client_method") ->
                     l.invoked.sym # "TLS_client_method"
                [] s = FuncSite("SSL_up_ref") ->
                     l.invoked = NoCall /\ l.ret = Const("0")
                [] OTHER -> l.nullCall

\* C5: once a binding is resolved, no step (an openssl(ptr) call least of
\* all) changes its target handle, pointer or validity, and every later
\* explicit-handle call of its operation goes by that binding, valid()
\* included, and makes no new lookup for it.
C5_BindingOutlivesHandle ==
    [][ \A s \in Sites : binding[s].init =>
          LET func == FuncSite("TLS_client_method") IN
          /\ binding'[s] = binding[s]
          /\ (ncalls' # ncalls /\ handle' # RTLD_DEFAULT
                /\ last'.op = s[1]) =>
                /\ s \in last'.via
                /\ SiteLookups(s)' = SiteLookups(s)
                /\ (s = OldSite) => ~FunctionValid(binding[func])
                /\ UsesBinding(last', s, binding[s]) ]_vars

\* valid() answers true under a library without "SSL_CTX_new", from the
\* binding it resolved under the earlier handle
C5_Witness ==
    /\ last.op = "valid"
    /\ handle = "bare"
    /\ binding[FuncSite("valid")].handle = "boring"
    /\ last.ret = Const("true")

(***************************************************************************)
(* C7                                                                      *)
(***************************************************************************)
\* C7: the chain of TLS_client_method() is tried left to right and settles:
\* the legacy name is looked up only in a call that found the modern
\* binding invalid, never once the modern binding is valid, and each of the
\* two names is looked up at most once.
C7_FallbackChainSettles ==
    LET func == FuncSite("TLS_client_method")
        f == binding[func]
        o == binding[OldSite]
    IN  /\ o.init => (f.init /\ ~FunctionValid(f))
        /\ (f.init /\ FunctionValid(f)) => SiteLookups(OldSite) = 0
        /\ SiteLookups(func) <= 1
        /\ SiteLookups(OldSite) <= 1
        /\ \A h \in Handles :
              /\ LookupCount(h, "TLS_client_method")
                    = CopiesIn(<<func, h>>, dlsymCount)
              /\ LookupCount(h, "SSLv23_client_method")
                    = CopiesIn(<<OldSite, h>>, dlsymCount)
        /\ (last.op = "TLS_client_method" /\ last.path = "resolver") =>
              /\ f.init
              /\ last.looked \in
                    { <<>>, <<"TLS_client_method">>,
                      <<"TLS_client_method", "SSLv23_client_method">> }
              /\ FunctionValid(f) =>
                    /\ last.via = {func}
                    /\ last.invoked = f.ptr
              /\ ~FunctionValid(f) =>
                    /\ last.via = {func, OldSite}
                    /\ o.init
                    /\ FunctionValid(o) => last.invoked = o.ptr
                    /\ last.invoked.sym # "TLS_client_method"

\* a later call under a legacy-only library, after the modern name had
\* resolved: the modern binding serves it and the legacy name is never
\* looked up
C7_Witness ==
    /\ ncalls = 2
    /\ last.op = "TLS_client_method"
    /\ handle = "legacy"
    /\ last.looked = <<>>
    /\ last.invoked = Ptr("boring", "TLS_client_method")
    /\ ~binding[OldSite].init

(***************************************************************************)
(* C8                                                                      *)
(***************************************************************************)
\* the part of C8 about the Default handle
MacroDefault ==
    (last.op \in MacroOps /\ handle = RTLD_DEFAULT) =>
       /\ last.path = "trampoline"
       /\ last.invoked = Ptr(RTLD_DEFAULT, Trampoline(last.op))
       /\ last.looked = <<>>
       /\ last.via = {}

\* C8 as stated: a macro operation called with the Default handle goes
\* through its trampoline without a lookup; called with an explicit handle
\* it calls the binding resolved in that library for the exported name,
\* never the trampoline.
C8_MacroDispatch ==
    /\ MacroDefault
    /\ (last.op \in MacroOps /\ handle # RTLD_DEFAULT) =>
          /\ last.path = "resolver"
          /\ last.via = {FuncSite(last.op)}
          /\ binding[FuncSite(last.op)].handle = handle
          /\ binding[FuncSite(last.op)].ptr
                \in Dlsym(handle, MacroSymbol(last.op))
          /\ last.invoked \in {binding[FuncSite(last.op)].ptr}
          /\ last.invoked.sym # Trampoline(last.op)

\* C8 amended: with an explicit handle the operation calls the binding of
\* its declaration for the exported name, which was resolved in the library
\* configured at the wrapper's first explicit-handle call (not necessarily
\* the one configured now), never the trampoline.
C8_MacroDispatchOfBoundHandle ==
    /\ MacroDefault
    /\ (last.op \in MacroOps /\ handle # RTLD_DEFAULT) =>
          /\ last.path = "resolver"
          /\ last.via = {FuncSite(last.op)}
          /\ binding[FuncSite(last.op)].init
          /\ binding[FuncSite(last.op)].handle \in Libs
          /\ binding[FuncSite(last.op)].ptr
                \in Dlsym(binding[FuncSite(last.op)].handle,
                          MacroSymbol(last.op))
          /\ last.invoked \in {binding[FuncSite(last.op)].ptr}
          /\ last.invoked.sym # Trampoline(last.op)
          /\ last.nullCall <=> ~FunctionValid(binding[FuncSite(last.op)])

\* SSL_CTX_set_mode_func under an explicit handle calls the exported
\* function of the library
C8_Witness ==
    /\ last.op = "SSL_CTX_set_mode_func"
    /\ handle = "boring"
    /\ last.invoked = Ptr("boring", "SSL_CTX_set_mode")
    /\ last.ret = Result(last.invoked, last.arg)

(***************************************************************************)
(* C9                                                                      *)
(***************************************************************************)
\* the wrappers that begin with if (handle == RTLD_DEFAULT)
Branching == Ops \ {"SSL_up_ref"}

ConfiguredOnceFirst == configured \in {"never", "first"}

\* C10: in a process that calls openssl(ptr) at most once and before any
\* wrapped operation, every binding, the one of SSL_up_ref included, was
\* resolved against the configured handle, and every function called lives
\* in that one library.
C10_SingleLibrary ==
    ConfiguredOnceFirst =>
       /\ \A s \in Sites : binding[s].init =>
             /\ binding[s].handle = handle
             /\ binding[s].ptr \in {NullPtr, Ptr(handle, SymbolOf(s))}
       /\ \A e \in DOMAIN dlsymCount : e[2] = handle
       /\ (Called /\ last.invoked \notin {NoCall, NullPtr}) =>
             last.invoked.lib = handle

\* two operations, SSL_up_ref one of them, bound in the one library
C10_Witness ==
    /\ ConfiguredOnceFirst
    /\ handle = "boring"
    /\ last.op = "SSL_up_ref"
    /\ FunctionValid(binding[FuncSite("SSL_up_ref")])
    /\ FunctionValid(binding[FuncSite("SSL_CTX_new")])

(***************************************************************************)
(* C6                                                                      *)
(***************************************************************************)
\* the threads that are running the constructor of declaration s
Constructors(s) == { t \in Threads : pc[t] = "ctor" /\ FuncSite(tOp[t]) = s }

\* C6: threads that make the first explicit-handle call of one wrapper at
\* the same time initialize its binding once: one thread makes the lookup,
\* the others wait for it, none tests or calls the binding before it is
\* constructed, and all of them find the same pointer and validity.
C6_InitializedOnce ==
    /\ \A s \in Sites :
          /\ SiteLookups(s) <= 1
          /\ Cardinality(Constructors(s)) = IF constructing[s] THEN 1 ELSE 0
          /\ constructing[s] => (~binding[s].init /\ SiteLookups(s) = 0)
          /\ binding[s].init <=> SiteLookups(s) = 1
    /\ \A t \in Threads :
          /\ pc[t] = "use" => binding[FuncSite(tOp[t])].init
          /\ (pc[t] = "wait" /\ ~binding[FuncSite(tOp[t])].init) =>
                Constructors(FuncSite(tOp[t])) # {}
          /\ seen[t].f.init => seen[t].f = binding[FuncSite(tOp[t])]
    /\ \A t, u \in Threads :
          (tOp[t] = tOp[u] /\ seen[t].f.init /\ seen[u].f.init) =>
             seen[t].f = seen[u].f

\* two threads have returned from SSL_CTX_new with the same valid binding,
\* one of them after waiting for the other to construct it
C6_Witness ==
    \E t, u \in Threads :
       /\ t # u
       /\ tOp[t] = "SSL_CTX_new" /\ tOp[u] = "SSL_CTX_new"
       /\ pc[t] = "idle" /\ pc[u] = "idle"
       /\ seen[t].waited /\ ~seen[u].waited
       /\ FunctionValid(seen[t].f)
       /\ seen[t].f = seen[u].f
       /\ SiteLookups(FuncSite("SSL_CTX_new")) = 1

====
